---- MODULE Spec2Model ----
(***************************************************************************)
(* A model of scripts/parse_logs.py: the script that turns a batch of      *)
(* FreeClimb log records into the timeline of one call.                    *)
(*                                                                         *)
(* Representation.                                                         *)
(*  - A Python str is a sequence of one-character strings, so that         *)
(*    slicing, regular-expression search and JSON decoding are computed    *)
(*    character by character.                                              *)
(*  - A dict that json.load produced from standard input (the document, a  *)
(*    log record, metadata, requestBody, requestHeaders) is a TLA+         *)
(*    function whose domain is the set of keys present; an absent key is   *)
(*    a key outside the domain.                                            *)
(*  - A value that json.loads produces from a responseBody is a tagged     *)
(*    record [t, v]: t is the Python type ("dict", "list", "str", "num",   *)
(*    "bool", "null"); a dict's v is the sequence of its <<key, value>>    *)
(*    pairs in insertion order, which is the order Python iterates them.   *)
(*  - Standard output is the sequence of the lines printed so far.         *)
(* The alphabet of the modelled strings has no backslash and no character  *)
(* outside ASCII; its control characters are tab, newline, form feed and   *)
(* carriage return.                                                        *)
(***************************************************************************)
EXTENDS Integers, Sequences, FiniteSets, TLC

VARIABLES stdin, argv, pc, rc, logs, call_id, call_logs, t0, i, out

vars == <<stdin, argv, pc, rc, logs, call_id, call_logs, t0, i, out>>

(***************************************************************************)
(* String literals of the script.                                          *)
(***************************************************************************)
LitNoLogsFound == <<"N","o"," ","l","o","g","s"," ","f","o","u","n","d",".">>
LitMostRecent == <<"M","o","s","t"," ","r","e","c","e","n","t"," ","c","a","l","l",":"," ">>
LitNoLogsFor == <<"N","o"," ","l","o","g","s"," ","f","o","r"," ","c","a","l","l","I","d","=">>
LitCall == <<"C","a","l","l",":"," ">>
LitEventsOpen == <<" "," ","(">>
LitEventsClose == <<" ","e","v","e","n","t","s",")">>
LitSpeech == <<"S","P","E","E","C","H"," "," ","r","e","a","s","o","n","=">>
LitSpeechQuote == <<" "," ","\"">>
LitCallFrom == <<"C","A","L","L"," "," "," "," ","f","r","o","m","=">>
LitCallTo == <<" ","t","o","=">>
LitRedir == <<"R","E","D","I","R"," "," "," ","n","=">>
LitResp == <<"R","E","S","P">>
LitEvent == <<"E","V","E","N","T">>
LitArrow == <<" ","-",">"," ">>
LitPlus == <<" ","+"," ">>
LitPlayOpen == <<"P","l","a","y","(">>
LitListen == <<"L","i","s","t","e","n">>
LitRedirectOpen == <<"R","e","d","i","r","e","c","t","(","n","=">>
LitInboundCall == <<"i","n","b","o","u","n","d","C","a","l","l">>
LitRedirectType == <<"r","e","d","i","r","e","c","t">>
KeyPlay == <<"P","l","a","y">>
KeyTranscribeUtterance == <<"T","r","a","n","s","c","r","i","b","e","U","t","t","e","r","a","n","c","e">>
KeyRedirect == <<"R","e","d","i","r","e","c","t">>
KeyFile == <<"f","i","l","e">>
KeyActionUrl == <<"a","c","t","i","o","n","U","r","l">>
LitQuestion == <<"?">>
LitTwoSpaces == <<" "," ">>

\* The divisor that turns a microsecond timestamp into seconds.
MicrosPerSecond == 1000000
\* The length of the separator line and of the raw-text fallback.
SeparatorWidth == 80
FallbackWidth == 80
\* The length a Play id is cut to.
PlayIdWidth == 24
\* The width the offset is right-aligned to.
OffsetWidth == 4

(***************************************************************************)
(* Python's str, list and dict primitives.                                 *)
(***************************************************************************)
DigitChars == <<"0","1","2","3","4","5","6","7","8","9">>
Digits == {DigitChars[n] : n \in 1..10}
Whitespace == {" ", "\t", "\n", "\r"}
\* the characters below 0x20, which the decoder refuses inside a string
ControlChars == {"\t", "\n", "\f", "\r"}

Min(a, b) == IF a <= b THEN a ELSE b

\* s[:n]
Take(s, n) == SubSeq(s, 1, Min(n, Len(s)))

\* c * n
RECURSIVE Repeat(_, _)
Repeat(c, n) == IF n <= 0 THEN << >> ELSE <<c>> \o Repeat(c, n - 1)

\* str(n) of a natural number
RECURSIVE StrNat(_)
StrNat(n) ==
  IF n < 10 THEN <<DigitChars[n + 1]>>
  ELSE StrNat(n \div 10) \o <<DigitChars[(n % 10) + 1]>>

\* str(n) of an integer
StrInt(n) == IF n < 0 THEN <<"-">> \o StrNat(-n) ELSE StrNat(n)

\* format(s, '>w'): right-aligned in a field of w, never cut
RightAlign(s, w) == Repeat(" ", w - Len(s)) \o s

\* sep.join(parts)
RECURSIVE Join(_, _)
Join(sep, parts) ==
  IF parts = << >> THEN << >>
  ELSE IF Len(parts) = 1 THEN parts[1]
  ELSE parts[1] \o sep \o Join(sep, Tail(parts))

\* d.get(k, default) of a dict read from standard input
Get(d, k, default) == IF k \in DOMAIN d THEN d[k] ELSE default

\* whether the literal lit stands in s at position p
MatchAt(s, p, lit) ==
  /\ p >= 1
  /\ p + Len(lit) - 1 <= Len(s)
  /\ SubSeq(s, p, p + Len(lit) - 1) = lit

\* the end (exclusive) of the longest run of characters of set cs from p
RECURSIVE RunEnd(_, _, _)
RunEnd(s, p, cs) ==
  IF p <= Len(s) /\ s[p] \in cs THEN RunEnd(s, p + 1, cs) ELSE p

\* the end (exclusive) of the longest run of characters other than c from p
RECURSIVE RunEndNot(_, _, _)
RunEndNot(s, p, c) ==
  IF p <= Len(s) /\ s[p] # c THEN RunEndNot(s, p + 1, c) ELSE p

(***************************************************************************)
(* The two regular expressions, as re.search computes them: the leftmost   *)
(* match, its group the longest run.  The result is the group, or "?".     *)
(***************************************************************************)
\* re.search(r'[&?]n=(\d+)', s), group 1, default '?'
RECURSIVE SearchNFrom(_, _)
SearchNFrom(s, p) ==
  IF p + 3 > Len(s) THEN LitQuestion
  ELSE IF s[p] \in {"&", "?"} /\ s[p + 1] = "n" /\ s[p + 2] = "=" /\ s[p + 3] \in Digits
       THEN SubSeq(s, p + 3, RunEnd(s, p + 3, Digits) - 1)
       ELSE SearchNFrom(s, p + 1)

SearchN(s) == SearchNFrom(s, 1)

\* re.search(r'id=([^&]+)', s), group 1, default '?'
RECURSIVE SearchIdFrom(_, _)
SearchIdFrom(s, p) ==
  IF p + 3 > Len(s) THEN LitQuestion
  ELSE IF s[p] = "i" /\ s[p + 1] = "d" /\ s[p + 2] = "=" /\ s[p + 3] # "&"
       THEN SubSeq(s, p + 3, RunEndNot(s, p + 3, "&") - 1)
       ELSE SearchIdFrom(s, p + 1)

SearchId(s) == SearchIdFrom(s, 1)

(***************************************************************************)
(* json.loads on a str, by recursive descent as the decoder does it.  A    *)
(* parse is [ok |-> TRUE, val, pos] (pos: the first position after the     *)
(* value) or ParseFailure, which stands for the JSONDecodeError raised,    *)
(* or for the ValueError of an integer of too many digits.                 *)
(***************************************************************************)
ParseFailure == [ok |-> FALSE]
ParseOk(v, p) == [ok |-> TRUE, val |-> v, pos |-> p]

PyStr(s) == [t |-> "str", v |-> s]
PyNum(s) == [t |-> "num", v |-> s]
PyBool(b) == [t |-> "bool", v |-> b]
PyNone == [t |-> "null", v |-> << >>]
PyList(xs) == [t |-> "list", v |-> xs]
PyDict(kvs) == [t |-> "dict", v |-> kvs]

\* the first position at or after p that holds no JSON whitespace
RECURSIVE SkipWs(_, _)
SkipWs(s, p) ==
  IF p <= Len(s) /\ s[p] \in Whitespace THEN SkipWs(s, p + 1) ELSE p

\* the position of the quote that closes a string whose text starts at p;
\* 0 when the string is unterminated or holds a control character
RECURSIVE StringEnd(_, _)
StringEnd(s, p) ==
  IF p > Len(s) THEN 0
  ELSE IF s[p] = "\"" THEN p
  ELSE IF s[p] \in ControlChars THEN 0
  ELSE StringEnd(s, p + 1)

\* the end (exclusive) of -?(0|[1-9][0-9]*) at p; 0 when it does not match
IntEnd(s, p) ==
  LET q == IF p <= Len(s) /\ s[p] = "-" THEN p + 1 ELSE p
  IN  IF q > Len(s) THEN 0
      ELSE IF s[q] = "0" THEN q + 1
      ELSE IF s[q] \in Digits THEN RunEnd(s, q, Digits)
      ELSE 0

\* the end of the optional (\.[0-9]+) at e
FracEnd(s, e) ==
  IF e + 1 <= Len(s) /\ s[e] = "." /\ s[e + 1] \in Digits
  THEN RunEnd(s, e + 1, Digits) ELSE e

\* the end of the optional ([eE][-+]?[0-9]+) at e
ExpEnd(s, e) ==
  IF e <= Len(s) /\ s[e] \in {"e", "E"}
  THEN LET q == IF e + 1 <= Len(s) /\ s[e + 1] \in {"+", "-"} THEN e + 2 ELSE e + 1
       IN  IF q <= Len(s) /\ s[q] \in Digits THEN RunEnd(s, q, Digits) ELSE e
  ELSE e

\* the end (exclusive) of the number at p; 0 when there is none
NumberEnd(s, p) ==
  LET e == IntEnd(s, p) IN IF e = 0 THEN 0 ELSE ExpEnd(s, FracEnd(s, e))

\* the most digits int() converts: sys.get_int_max_str_digits()
IntMaxStrDigits == 4300

\* the number at p is an integer of more digits than int() converts
IntTooLong(s, p) ==
  LET e == IntEnd(s, p)
      q == IF p <= Len(s) /\ s[p] = "-" THEN p + 1 ELSE p
  IN  e # 0 /\ NumberEnd(s, p) = e /\ e - q > IntMaxStrDigits

\* d[k] = v on the pairs of a dict: a repeated key keeps its place and takes
\* the later value
DictPut(kvs, k, v) ==
  IF \E n \in 1..Len(kvs) : kvs[n][1] = k
  THEN [n \in 1..Len(kvs) |-> IF kvs[n][1] = k THEN <<k, v>> ELSE kvs[n]]
  ELSE Append(kvs, <<k, v>>)

RECURSIVE ParseValue(_, _)
RECURSIVE ParseArrayItems(_, _, _)
RECURSIVE ParseObjectItems(_, _, _)

\* the items of an array from p, the start of an item; acc: the items so far
ParseArrayItems(s, p, acc) ==
  LET r == ParseValue(s, p)
  IN  IF ~r.ok THEN ParseFailure
      ELSE LET q == SkipWs(s, r.pos)
           IN  IF q > Len(s) THEN ParseFailure
               ELSE IF s[q] = "]" THEN ParseOk(PyList(Append(acc, r.val)), q + 1)
               ELSE IF s[q] = ","
                    THEN ParseArrayItems(s, SkipWs(s, q + 1), Append(acc, r.val))
               ELSE ParseFailure

\* the members of an object from p, the opening quote of a key
ParseObjectItems(s, p, acc) ==
  IF p > Len(s) \/ s[p] # "\"" THEN ParseFailure
  ELSE LET e == StringEnd(s, p + 1)
       IN  IF e = 0 THEN ParseFailure
           ELSE LET key == SubSeq(s, p + 1, e - 1)
                    c == SkipWs(s, e + 1)
                IN  IF c > Len(s) \/ s[c] # ":" THEN ParseFailure
                    ELSE LET r == ParseValue(s, SkipWs(s, c + 1))
                         IN  IF ~r.ok THEN ParseFailure
                             ELSE LET q == SkipWs(s, r.pos)
                                      kvs == DictPut(acc, key, r.val)
                                  IN  IF q > Len(s) THEN ParseFailure
                                      ELSE IF s[q] = "}" THEN ParseOk(PyDict(kvs), q + 1)
                                      ELSE IF s[q] = ","
                                           THEN ParseObjectItems(s, SkipWs(s, q + 1), kvs)
                                      ELSE ParseFailure

\* the value that starts at p
ParseValue(s, p) ==
  IF p > Len(s) THEN ParseFailure
  ELSE IF s[p] = "\""
       THEN LET e == StringEnd(s, p + 1)
            IN  IF e = 0 THEN ParseFailure
                ELSE ParseOk(PyStr(SubSeq(s, p + 1, e - 1)), e + 1)
  ELSE IF s[p] = "{"
       THEN LET q == SkipWs(s, p + 1)
            IN  IF q <= Len(s) /\ s[q] = "}" THEN ParseOk(PyDict(<< >>), q + 1)
                ELSE ParseObjectItems(s, q, << >>)
  ELSE IF s[p] = "["
       THEN LET q == SkipWs(s, p + 1)
            IN  IF q <= Len(s) /\ s[q] = "]" THEN ParseOk(PyList(<< >>), q + 1)
                ELSE ParseArrayItems(s, q, << >>)
  ELSE IF MatchAt(s, p, <<"n","u","l","l">>) THEN ParseOk(PyNone, p + 4)
  ELSE IF MatchAt(s, p, <<"t","r","u","e">>) THEN ParseOk(PyBool(TRUE), p + 4)
  ELSE IF MatchAt(s, p, <<"f","a","l","s","e">>) THEN ParseOk(PyBool(FALSE), p + 5)
  ELSE IF MatchAt(s, p, <<"N","a","N">>) THEN ParseOk(PyNum(SubSeq(s, p, p + 2)), p + 3)
  ELSE IF MatchAt(s, p, <<"I","n","f","i","n","i","t","y">>)
       THEN ParseOk(PyNum(SubSeq(s, p, p + 7)), p + 8)
  ELSE IF MatchAt(s, p, <<"-","I","n","f","i","n","i","t","y">>)
       THEN ParseOk(PyNum(SubSeq(s, p, p + 8)), p + 9)
  ELSE LET e == NumberEnd(s, p)
       IN  IF e = 0 \/ IntTooLong(s, p) THEN ParseFailure
           ELSE ParseOk(PyNum(SubSeq(s, p, e - 1)), e)

\* json.loads(s): one value, whitespace around it, and nothing after it
json_loads(s) ==
  LET r == ParseValue(s, SkipWs(s, 1))
  IN  IF ~r.ok THEN ParseFailure
      ELSE IF SkipWs(s, r.pos) <= Len(s) THEN ParseFailure
      ELSE r

(***************************************************************************)
(* Response command decoding: the body of the try block.  A result is      *)
(* [ok |-> TRUE, names] or DecodeFailure, which stands for any exception   *)
(* raised inside the try block.                                            *)
(***************************************************************************)
DecodeFailure == [ok |-> FALSE]

\* whether Python can iterate the value with a for loop
Iterable(x) == x.t \in {"list", "dict", "str"}

\* the values a for loop over x yields: the items of a list, the keys of a
\* dict, the characters of a str
Iterate(x) ==
  IF x.t = "list" THEN x.v
  ELSE IF x.t = "dict" THEN [n \in 1..Len(x.v) |-> PyStr(x.v[n][1])]
  ELSE [n \in 1..Len(x.v) |-> PyStr(<<x.v[n]>>)]

\* whether k == lit, for a value k and a str literal
IsStr(k, lit) == k.t = "str" /\ k.v = lit

\* d.get(k, default) on the pairs of a decoded dict
PairsGet(kvs, k, default) ==
  IF \E n \in 1..Len(kvs) : kvs[n][1] = k
  THEN kvs[CHOOSE n \in 1..Len(kvs) : kvs[n][1] = k][2]
  ELSE default

\* cmd[k].get(field, ''): the str found, or DecodeFailure where cmd[k], .get
\* or the regular-expression search that follows would raise
CommandField(cmd, k, field) ==
  IF cmd.t # "dict" THEN DecodeFailure
  ELSE LET val == PairsGet(cmd.v, k.v, PyNone)
       IN  IF val.t # "dict" THEN DecodeFailure
           ELSE LET f == PairsGet(val.v, field, PyStr(<< >>))
                IN  IF f.t # "str" THEN DecodeFailure
                    ELSE [ok |-> TRUE, s |-> f.v]

\* the name appended for key k of command cmd
CommandName(cmd, k) ==
  IF IsStr(k, KeyPlay)
  THEN LET f == CommandField(cmd, k, KeyFile)
       IN  IF ~f.ok THEN DecodeFailure
           ELSE [ok |-> TRUE,
                 name |-> LitPlayOpen \o Take(SearchId(f.s), PlayIdWidth) \o <<")">>]
  ELSE IF IsStr(k, KeyTranscribeUtterance)
  THEN [ok |-> TRUE, name |-> LitListen]
  ELSE IF IsStr(k, KeyRedirect)
  THEN LET f == CommandField(cmd, k, KeyActionUrl)
       IN  IF ~f.ok THEN DecodeFailure
           ELSE [ok |-> TRUE, name |-> LitRedirectOpen \o SearchN(f.s) \o <<")">>]
  \* any other key is appended as it is; one that is no str makes join raise
  ELSE IF k.t = "str" THEN [ok |-> TRUE, name |-> k.v]
  ELSE DecodeFailure

\* the inner loop: the names of the keys ks of cmd, appended to acc
RECURSIVE KeyNames(_, _, _)
KeyNames(cmd, ks, acc) ==
  IF ks = << >> THEN [ok |-> TRUE, names |-> acc]
  ELSE LET r == CommandName(cmd, Head(ks))
       IN  IF ~r.ok THEN DecodeFailure
           ELSE KeyNames(cmd, Tail(ks), Append(acc, r.name))

\* CommandNames with the bug of keeping the names appended before a command
\* raised
RECURSIVE CommandNamesKeepPartial(_, _)
CommandNamesKeepPartial(cmds, acc) ==
  IF cmds = << >> THEN [ok |-> TRUE, names |-> acc]
  ELSE IF ~Iterable(Head(cmds)) THEN [ok |-> TRUE, names |-> acc]
  ELSE LET r == KeyNames(Head(cmds), Iterate(Head(cmds)), acc)
       IN  IF ~r.ok THEN [ok |-> TRUE, names |-> acc]
           ELSE CommandNamesKeepPartial(Tail(cmds), r.names)

\* the outer loop: the names of the commands cmds, appended to acc
RECURSIVE CommandNames(_, _)
CommandNames(cmds, acc) ==
  IF cmds = << >> THEN [ok |-> TRUE, names |-> acc]
  ELSE IF ~Iterable(Head(cmds)) THEN DecodeFailure
  ELSE LET r == KeyNames(Head(cmds), Iterate(Head(cmds)), acc)
       IN  IF ~r.ok THEN DecodeFailure
           ELSE CommandNames(Tail(cmds), r.names)

\* the try block as a whole
DecodeResponse(resp) ==
  LET r == json_loads(resp)
  IN  IF ~r.ok THEN DecodeFailure
      ELSE IF ~Iterable(r.val) THEN DecodeFailure
      ELSE CommandNames(Iterate(r.val), << >>)

\* the part appended for a non-empty responseBody: the joined names, or in
\* the except branch the start of the raw text
ResponseSuffix(resp) ==
  LET d == DecodeResponse(resp)
  IN  IF d.ok THEN LitArrow \o Join(LitPlus, d.names)
      ELSE LitArrow \o Take(resp, FallbackWidth)

(***************************************************************************)
(* Kind determination and the line of one record.                          *)
(***************************************************************************)
EmptyDict == << >>
EmptyStr == << >>

\* the if/elif chain: [ok |-> TRUE, kind, text], or [ok |-> FALSE] where the
\* REDIR branch raises IndexError on an empty url list
KindPart(meta, body, resp) ==
  IF "transcript" \in DOMAIN body
  THEN [ok |-> TRUE, kind |-> "SPEECH",
        text |-> LitSpeech \o Get(body, "transcribeReason", LitQuestion)
                 \o LitSpeechQuote \o Get(body, "transcript", EmptyStr) \o <<"\"">>]
  ELSE IF "requestType" \in DOMAIN body /\ body.requestType = LitInboundCall
  THEN [ok |-> TRUE, kind |-> "CALL",
        text |-> LitCallFrom \o Get(body, "from", LitQuestion)
                 \o LitCallTo \o Get(body, "to", LitQuestion)]
  ELSE IF "requestType" \in DOMAIN body /\ body.requestType = LitRedirectType
  THEN LET urls == Get(Get(meta, "requestHeaders", EmptyDict), "url", <<EmptyStr>>)
       IN  IF urls = << >> THEN [ok |-> FALSE]
           ELSE [ok |-> TRUE, kind |-> "REDIR", text |-> LitRedir \o SearchN(urls[1])]
  ELSE IF resp # EmptyStr
  THEN [ok |-> TRUE, kind |-> "RESP", text |-> LitResp]
  ELSE [ok |-> TRUE, kind |-> "EVENT", text |-> LitEvent]

\* f'+{offset:>4}s'
OffsetPart(offset) == <<"+">> \o RightAlign(StrInt(offset), OffsetWidth) \o <<"s">>

\* HasSuffix with the bug of a guard that is dropped
HasSuffixAlways(resp) == TRUE

\* whether the suffix is appended: if resp
HasSuffix(resp) == resp # EmptyStr

\* one pass of the loop body for record l: [ok |-> TRUE, line] with the
\* line printed, or [ok |-> FALSE] when an exception leaves the loop
RenderRecord(l, base) ==
  LET ts == l.timestamp \div MicrosPerSecond
      offset == ts - base
      meta == Get(l, "metadata", EmptyDict)
      body == Get(meta, "requestBody", EmptyDict)
      resp == Get(meta, "responseBody", EmptyStr)
      k == KindPart(meta, body, resp)
  IN  IF ~k.ok THEN [ok |-> FALSE]
      ELSE LET parts == IF HasSuffix(resp)
                        THEN <<OffsetPart(offset), k.text, ResponseSuffix(resp)>>
                        ELSE <<OffsetPart(offset), k.text>>
           IN  [ok |-> TRUE, line |-> Join(LitTwoSpaces, parts)]

(***************************************************************************)
(* Selection: the filter and the stable sort.                              *)
(***************************************************************************)
\* MatchesCall with the bug of an absent callId that matches every id
MatchesCallOrAbsent(l, id) == "callId" \notin DOMAIN l \/ l.callId = id

\* l.get('callId') == id; an absent callId is None, which equals no str
MatchesCall(l, id) == "callId" \in DOMAIN l /\ l.callId = id

FilterCall(ls, id) == SelectSeq(ls, LAMBDA l : MatchesCall(l, id))

\* what the sort gives: [ok |-> TRUE, list], or SortFailure where the key
\* function raises KeyError on a record without timestamp
SortFailure == [ok |-> FALSE]

\* the sort of the records sorted in r and the record x after them: x goes
\* after every record whose key is not greater, as a stable sort puts it
RECURSIVE InsertByTimestamp(_, _)
InsertByTimestamp(r, x) ==
  IF ~r.ok \/ "timestamp" \notin DOMAIN x THEN SortFailure
  ELSE IF r.list = << >> THEN [ok |-> TRUE, list |-> <<x>>]
  ELSE LET last == r.list[Len(r.list)]
           front == [ok |-> TRUE, list |-> SubSeq(r.list, 1, Len(r.list) - 1)]
       IN  IF last.timestamp <= x.timestamp
           THEN [ok |-> TRUE, list |-> Append(r.list, x)]
           ELSE [ok |-> TRUE, list |-> Append(InsertByTimestamp(front, x).list, last)]

\* SortByTimestamp with the bug of a sort that computes the keys and leaves
\* the order as it is
SortOmitted(s) ==
  IF \E n \in 1..Len(s) : "timestamp" \notin DOMAIN s[n] THEN SortFailure
  ELSE [ok |-> TRUE, list |-> s]

\* list.sort(key=lambda x: x['timestamp'])
RECURSIVE SortByTimestamp(_)
SortByTimestamp(s) ==
  IF s = << >> THEN [ok |-> TRUE, list |-> << >>]
  ELSE InsertByTimestamp(SortByTimestamp(SubSeq(s, 1, Len(s) - 1)), s[Len(s)])

(***************************************************************************)
(* The inputs: standard input and the command line.                        *)
(*                                                                         *)
(* Standard input is [valid |-> FALSE] (text that is no JSON document) or  *)
(* [valid |-> TRUE, doc |-> d], d the document: a dict [t |-> "dict", v]   *)
(* or a document of another type.  argv is sys.argv[1:].                   *)
(* Two families of documents are drawn.  The timeline family varies the    *)
(* callId, the timestamp and the number of the records; the payload family *)
(* varies the payload of one record of a call of up to two records.        *)
(***************************************************************************)
\* the longest log list of the timeline family
MaxLogs == 2

IdA == <<"A">>
IdB == <<"B">>
IdZ == <<"Z">>

Args == {<< >>, <<EmptyStr>>, <<IdA>>, <<IdZ>>}

Timestamps == {-1, 1500000, 1999999}

TextHi == <<"h","i">>
TextFinal == <<"f","i","n","a","l">>
TextOther == <<"o","t","h","e","r">>
Num15 == <<"1","5">>
Num16 == <<"1","6">>
UrlN3 == <<"h","t","t","p","s",":","/","/","x","/","?","n","=","3">>
UrlNoN == <<"/","a","?","m","=","1">>
UrlN9 == <<"/","b","?","n","=","9">>

RespInvalid == <<"n","o","t"," ","v","a","l","i","d"," ","j","s","o","n">>
RespPlay == <<"[","{","\"","P","l","a","y","\"",":","{","\"","f","i","l","e","\"",":","\"","h","t","t","p",":","/","/","x","?","i","d","=","a","b","c","1","2","3","&","y","=","1","\"","}","}","]">>
RespListen == <<"[","{","\"","T","r","a","n","s","c","r","i","b","e","U","t","t","e","r","a","n","c","e","\"",":","{","}","}","]">>
RespRedirect == <<"[","{","\"","R","e","d","i","r","e","c","t","\"",":","{","\"","a","c","t","i","o","n","U","r","l","\"",":","\"","/","c","?","n","=","3","\"","}","}","]">>
\* a command list whose second command makes the decoding raise
RespPartial == <<"[","{","\"","H","a","n","g","u","p","\"",":","{","}","}",",","{","\"","P","l","a","y","\"",":","\"","x","\"","}","]">>
RespPartialRedirect == <<"[","{","\"","T","r","a","n","s","c","r","i","b","e","U","t","t","e","r","a","n","c","e","\"",":","{","}","}",",","{","\"","R","e","d","i","r","e","c","t","\"",":","7","}","]">>
RespNumber == <<"5">>
RespEmptyList == <<"[","]">>
\* a command whose value is a string that holds a form feed
RespFormFeed == <<"[","{","\"","a","\"",":","\"","\f","\"","}","]">>
\* a Play whose id has 28 characters, followed by a second command
RespLongId == <<"[","{","\"","P","l","a","y","\"",":","{","\"","f","i","l","e","\"",":","\"","u","?","i","d","=","0","1","2","3","4","5","6","7","8","9","0","1","2","3","4","5","6","7","8","9","0","1","2","3","4","5","6","7","\"","}","}",",","{","\"","T","r","a","n","s","c","r","i","b","e","U","t","t","e","r","a","n","c","e","\"",":","{","}","}","]">>
\* 85 characters that are no JSON
RespLongInvalid == <<"{","\"","P","l","a","y","\"",":">> \o Repeat("x", 77)

\* the dicts that hold key k with a value of vs, and the dict without k
Optional(k, vs) == {EmptyDict} \cup {k :> x : x \in vs}

\* every sequence over S of length at most n
SeqsUpTo(S, n) == UNION {[1..k -> S] : k \in 0..n}

Malformed == [valid |-> FALSE]
Document(d) == [valid |-> TRUE, doc |-> d]
RootDict(d) == [t |-> "dict", v |-> d]
RootList == [t |-> "list", v |-> << >>]

TimelineMetas == {[requestBody |-> [requestType |-> LitInboundCall]]}

TimelineRecords ==
  {c @@ m @@ ts :
     c \in Optional("callId", {IdA, IdB}),
     m \in Optional("metadata", TimelineMetas),
     ts \in Optional("timestamp", Timestamps)}

TimelineInputs ==
  {Malformed, Document(RootList), Document(RootDict(EmptyDict))}
  \cup {Document(RootDict([logs |-> ls])) : ls \in SeqsUpTo(TimelineRecords, MaxLogs)}

PayloadBodies ==
  { [transcript |-> TextHi],
    [transcript |-> TextHi, transcribeReason |-> TextFinal,
     requestType |-> LitInboundCall, from |-> Num15],
    [transcript |-> EmptyStr, requestType |-> LitRedirectType],
    [requestType |-> LitInboundCall, from |-> Num15, to |-> Num16],
    [requestType |-> LitInboundCall],
    [requestType |-> LitRedirectType],
    [requestType |-> TextOther],
    EmptyDict }

PayloadResponses ==
  { EmptyStr, RespInvalid, RespPlay, RespListen, RespRedirect, RespPartial,
    RespPartialRedirect, RespNumber, RespEmptyList, RespFormFeed, RespLongId,
    RespLongInvalid }

PayloadHeaders ==
  { EmptyDict, [url |-> << >>], [url |-> <<UrlN3>>], [url |-> <<UrlNoN, UrlN9>>] }

PayloadMetas ==
  {b @@ r @@ h :
     b \in Optional("requestBody", PayloadBodies),
     r \in Optional("responseBody", PayloadResponses),
     h \in Optional("requestHeaders", PayloadHeaders)}

PayloadRecords ==
  {[callId |-> IdA, timestamp |-> 1000000] @@ m : m \in Optional("metadata", PayloadMetas)}

\* the records that stand before and after the varied one
Earlier == [callId |-> IdA, timestamp |-> 0, metadata |-> [responseBody |-> RespInvalid]]
Later == [callId |-> IdA, timestamp |-> 3000000]

PayloadInputs ==
  {Document(RootDict([logs |-> ls])) :
     ls \in UNION {{<<r>>, <<r, Later>>, <<Earlier, r>>} : r \in PayloadRecords}}

PayloadArgs == {<< >>, <<IdA>>}

Inputs == (TimelineInputs \X Args) \cup (PayloadInputs \X PayloadArgs)

(***************************************************************************)
(* The script, statement by statement.  pc is the statement that runs      *)
(* next; rc is the exit status, -1 while the script runs.  An exception    *)
(* that nothing catches ends the run with status 1.                        *)
(***************************************************************************)
Init ==
  /\ \E in \in Inputs : stdin = in[1] /\ argv = in[2]
  /\ pc = "load"
  /\ rc = -1
  /\ logs = << >>
  /\ call_id = EmptyStr
  /\ call_logs = << >>
  /\ t0 = 0
  /\ i = 0
  /\ out = << >>

\* sys.exit(0), or the end of the script
Exit == pc' = "done" /\ rc' = 0

\* an uncaught exception
Raise == pc' = "done" /\ rc' = 1

\* data = json.load(sys.stdin); logs = data.get('logs', []); if not logs: ...
Load ==
  /\ pc = "load"
  /\ IF ~stdin.valid \/ stdin.doc.t # "dict"
     THEN Raise /\ UNCHANGED <<logs, out>>
     ELSE /\ logs' = Get(stdin.doc.v, "logs", << >>)
          /\ IF logs' = << >>
             THEN out' = Append(out, LitNoLogsFound) /\ Exit
             ELSE out' = out /\ pc' = "select" /\ rc' = rc
  /\ UNCHANGED <<stdin, argv, call_id, call_logs, t0, i>>

\* sys.argv[1] if len(sys.argv) > 1 else ''
Argument(av) == IF Len(av) > 0 THEN av[1] ELSE EmptyStr

\* DefaultCallId with the bug of taking the last record of the input
DefaultCallIdLast(ls) == Get(ls[Len(ls)], "callId", EmptyStr)

\* logs[0].get('callId', '')
DefaultCallId(ls) == Get(ls[1], "callId", EmptyStr)

\* call_id = ...; if not call_id: call_id = the default; print
Select ==
  /\ pc = "select"
  /\ IF Argument(argv) = EmptyStr
     THEN /\ call_id' = DefaultCallId(logs)
          /\ out' = Append(out, LitMostRecent \o call_id')
     ELSE /\ call_id' = Argument(argv)
          /\ out' = out
  /\ pc' = "filter"
  /\ UNCHANGED <<stdin, argv, rc, logs, call_logs, t0, i>>

\* call_logs = [...]; call_logs.sort(...); if not call_logs: ...
FilterSort ==
  /\ pc = "filter"
  /\ LET sorted == SortByTimestamp(FilterCall(logs, call_id))
     IN  IF ~sorted.ok
         THEN call_logs' = FilterCall(logs, call_id) /\ out' = out /\ Raise
         ELSE /\ call_logs' = sorted.list
              /\ IF call_logs' = << >>
                 THEN out' = Append(out, LitNoLogsFor \o call_id) /\ Exit
                 ELSE out' = out /\ pc' = "header" /\ rc' = rc
  /\ UNCHANGED <<stdin, argv, logs, call_id, t0, i>>

\* f'Call: {call_id}  ({len(call_logs)} events)'
HeaderLine(id, n) == LitCall \o id \o LitEventsOpen \o StrNat(n) \o LitEventsClose

\* t0 = ...; the header and the separator; the loop starts
Header ==
  /\ pc = "header"
  /\ t0' = call_logs[1].timestamp \div MicrosPerSecond
  /\ out' = out \o <<HeaderLine(call_id, Len(call_logs)), Repeat("-", SeparatorWidth)>>
  /\ i' = 1
  /\ pc' = "loop"
  /\ UNCHANGED <<stdin, argv, rc, logs, call_id, call_logs>>

\* one pass of for l in call_logs; the script ends after the last one
RenderEvent ==
  /\ pc = "loop"
  /\ LET r == RenderRecord(call_logs[i], t0)
     IN  IF ~r.ok
         THEN Raise /\ UNCHANGED <<out, i>>
         ELSE /\ out' = Append(out, r.line)
              /\ IF i = Len(call_logs)
                 THEN Exit /\ i' = i
                 ELSE i' = i + 1 /\ pc' = "loop" /\ rc' = rc
  /\ UNCHANGED <<stdin, argv, logs, call_id, call_logs, t0>>

Next == Load \/ Select \/ FilterSort \/ Header \/ RenderEvent

Spec == Init /\ [][Next]_vars

(***************************************************************************)
(* What the properties speak of: the input as given, and the lines of the  *)
(* output by their place.                                                  *)
(***************************************************************************)
\* the log list of the document; empty when the document has none
InputLogs ==
  IF stdin.valid /\ stdin.doc.t = "dict" /\ "logs" \in DOMAIN stdin.doc.v
  THEN stdin.doc.v.logs ELSE << >>

\* no call identifier reaches the script: none is given, or an empty one
NoArgument == argv = << >> \/ argv[1] = EmptyStr

\* the place of the header line in the output, once it is printed
HeaderAt == IF NoArgument THEN 2 ELSE 1

\* the header and the separator are printed
HeaderPrinted == Len(out) > HeaderAt

\* the number of event lines printed so far, and the k-th of them
EventCount == IF HeaderPrinted THEN Len(out) - HeaderAt - 1 ELSE 0
EventLine(k) == out[HeaderAt + 1 + k]

\* the payload of a record, with the empty structure for what is absent
MetaOf(l) == IF "metadata" \in DOMAIN l THEN l.metadata ELSE << >>
BodyOf(l) == IF "requestBody" \in DOMAIN MetaOf(l) THEN MetaOf(l).requestBody ELSE << >>
RespOf(l) == IF "responseBody" \in DOMAIN MetaOf(l) THEN MetaOf(l).responseBody ELSE << >>
HeadersOf(l) == IF "requestHeaders" \in DOMAIN MetaOf(l) THEN MetaOf(l).requestHeaders ELSE << >>
RequestTypeIs(l, x) == "requestType" \in DOMAIN BodyOf(l) /\ BodyOf(l).requestType = x

\* the url list is present and empty: the one payload on which the loop raises
EmptyUrlList(l) == "url" \in DOMAIN HeadersOf(l) /\ HeadersOf(l).url = << >>

\* the seconds of a record's timestamp
SecondsOf(l) == l.timestamp \div MicrosPerSecond

\* the word that stands after the offset field and its two spaces
KindWordOf(line) ==
  LET start == RunEndNot(line, 1, "s") + 3
  IN  SubSeq(line, start, RunEndNot(line, start, " ") - 1)

LineInvalid == <<"+"," "," "," ","0","s"," "," ","R","E","S","P"," "," "," ","-",">"," ","n","o","t"," ","v","a","l","i","d"," ","j","s","o","n">>
LineCallPlay == <<"+"," "," "," ","1","s"," "," ","C","A","L","L"," "," "," "," ","f","r","o","m","=","1","5"," ","t","o","=","1","6"," "," "," ","-",">"," ","P","l","a","y","(","a","b","c","1","2","3",")">>
LinePartial == <<"+"," "," "," ","0","s"," "," ","R","E","S","P"," "," "," ","-",">"," ","[","{","\"","H","a","n","g","u","p","\"",":","{","}","}",",","{","\"","P","l","a","y","\"",":","\"","x","\"","}","]">>
LineRedirDefault == <<"+"," "," "," ","0","s"," "," ","R","E","D","I","R"," "," "," ","n","=","?">>
LineNoLogsZ == <<"N","o"," ","l","o","g","s"," ","f","o","r"," ","c","a","l","l","I","d","=","Z">>
LineMostRecentB == <<"M","o","s","t"," ","r","e","c","e","n","t"," ","c","a","l","l",":"," ","B">>
LineFirstOffset == <<"+"," "," "," ","0","s">>
LineLongPrefix == <<"+"," "," "," ","0","s"," "," ","R","E","S","P"," "," "," ","-",">"," ","{","\"","P","l","a","y","\"",":">>
LineLater == <<"+"," "," "," ","2","s"," "," ","E","V","E","N","T">>
LineSpeechBoth == <<"+"," "," "," ","0","s"," "," ","S","P","E","E","C","H"," "," ","r","e","a","s","o","n","=","f","i","n","a","l"," "," ","\"","h","i","\"">>

KindWords ==
  << <<"S","P","E","E","C","H">>, <<"C","A","L","L">>, <<"R","E","D","I","R">>,
     <<"R","E","S","P">>, <<"E","V","E","N","T">> >>

RuleHolds(n, l) ==
  IF n = 1 THEN "transcript" \in DOMAIN BodyOf(l)
  ELSE IF n = 2 THEN RequestTypeIs(l, LitInboundCall)
  ELSE IF n = 3 THEN RequestTypeIs(l, LitRedirectType)
  ELSE IF n = 4 THEN RespOf(l) # << >>
  ELSE TRUE

LowestRule(l) ==
  CHOOSE n \in 1..5 : RuleHolds(n, l) /\ \A m \in 1..(n - 1) : ~RuleHolds(m, l)

\* what every run keeps, the runs that raise too: each line printed carries
\* one kind word, that of the lowest-numbered rule that holds of its record
PrintedKindIsFirstMatch ==
  \A k \in 1..EventCount :
    /\ KindWordOf(EventLine(k)) = KindWords[LowestRule(call_logs[k])]
    /\ \A n \in 1..5 : (KindWordOf(EventLine(k)) = KindWords[n]) <=> (n = LowestRule(call_logs[k]))
    /\ ( /\ "transcript" \in DOMAIN BodyOf(call_logs[k])
         /\ (RequestTypeIs(call_logs[k], LitInboundCall) \/ RequestTypeIs(call_logs[k], LitRedirectType)) )
       => KindWordOf(EventLine(k)) = KindWords[1]

(***************************************************************************)
(* C1.  Kind determination is first-match-wins over the rule order         *)
(* SPEECH, CALL, REDIR, RESP, EVENT: for every record of the selected call *)
(* exactly one kind is rendered, the kind of the lowest-numbered rule      *)
(* whose condition holds; a record with a transcript key and the           *)
(* requestType inboundCall or redirect is rendered as SPEECH.              *)
(***************************************************************************)
C1_EveryRecordOneKind ==
  pc = "done" =>
    \A k \in 1..Len(call_logs) :
      /\ k <= EventCount
      /\ \A n \in 1..5 :
           (KindWordOf(EventLine(k)) = KindWords[n]) <=> (n = LowestRule(call_logs[k]))
      /\ ( /\ "transcript" \in DOMAIN BodyOf(call_logs[k])
           /\ (RequestTypeIs(call_logs[k], LitInboundCall) \/ RequestTypeIs(call_logs[k], LitRedirectType)) )
         => KindWordOf(EventLine(k)) = KindWords[1]

\* a record that matches the SPEECH and the CALL rule was printed, as SPEECH
C1_Witness ==
  /\ pc = "done" /\ rc = 0 /\ EventCount = 1
  /\ "transcript" \in DOMAIN BodyOf(call_logs[1])
  /\ RequestTypeIs(call_logs[1], LitInboundCall)
  /\ RespOf(call_logs[1]) = << >>
  /\ EventLine(1) = LineSpeechBoth

\* the places in the input of the records of the target call
Matching == {n \in 1..Len(logs) : "callId" \in DOMAIN logs[n] /\ logs[n].callId = call_id}

\* record m stands before record n in a stable ascending order
Before(m, n) ==
  \/ logs[m].timestamp < logs[n].timestamp
  \/ logs[m].timestamp = logs[n].timestamp /\ m < n

\* the k-th record of the target call in that order
Expected(k) ==
  logs[CHOOSE n \in Matching : Cardinality({m \in Matching : Before(m, n)}) = k - 1]

\* what every run keeps, the runs that raise too: the header counts the
\* records of the target call, the lines printed are the lines of the first
\* of them in the order of a stable ascending sort, and a run that ends with
\* status 0 has printed them all
PrintedLinesInStableOrder ==
  /\ HeaderPrinted =>
       /\ Matching # {}
       /\ out[HeaderAt] = LitCall \o call_id \o LitEventsOpen
                          \o StrNat(Cardinality(Matching)) \o LitEventsClose
       /\ EventCount <= Cardinality(Matching)
       /\ \A k \in 1..EventCount :
            /\ call_logs[k] = Expected(k)
            /\ EventLine(k) = RenderRecord(Expected(k), SecondsOf(Expected(1))).line
       /\ \A k \in 1..(EventCount - 1) :
            call_logs[k].timestamp <= call_logs[k + 1].timestamp
  /\ (pc = "done" /\ rc = 0 /\ Matching # {}) =>
       HeaderPrinted /\ EventCount = Cardinality(Matching)

(***************************************************************************)
(* C2.  For every input with a record of the target call, the event lines  *)
(* printed are exactly the records whose callId equals the target, one     *)
(* line per record, the header counting them, in the order of a stable     *)
(* ascending sort by timestamp: records of one timestamp keep their input  *)
(* order.                                                                  *)
(***************************************************************************)
C2_OneLinePerRecord ==
  (pc = "done" /\ Matching # {}) =>
    /\ HeaderPrinted
    /\ out[HeaderAt] = LitCall \o call_id \o LitEventsOpen
                       \o StrNat(Cardinality(Matching)) \o LitEventsClose
    /\ EventCount = Cardinality(Matching)
    /\ \A k \in 1..EventCount :
         /\ call_logs[k] = Expected(k)
         /\ EventLine(k) = RenderRecord(Expected(k), SecondsOf(Expected(1))).line

\* two records of one timestamp and different payloads were printed, in
\* their input order
C2_Witness ==
  /\ pc = "done" /\ rc = 0 /\ EventCount = 2
  /\ Len(logs) = 2
  /\ logs[1].timestamp = logs[2].timestamp
  /\ EventLine(1) # EventLine(2)
  /\ EventLine(1) = RenderRecord(logs[1], SecondsOf(logs[1])).line
  /\ EventLine(2) = RenderRecord(logs[2], SecondsOf(logs[1])).line

\* the offset of the k-th record of the timeline, and the field that shows
\* an offset
OffsetOf(k) == SecondsOf(call_logs[k]) - SecondsOf(call_logs[1])

OffsetField(n) == <<"+">> \o RightAlign(StrInt(n), OffsetWidth) \o <<"s">>

(***************************************************************************)
(* C6.  The offset of every event line is the seconds of its record minus  *)
(* t0, the seconds of the first record of the sorted timeline; it is never *)
(* negative, and the first event line shows the offset 0.                  *)
(***************************************************************************)
C6_OffsetsNonNegative ==
  /\ HeaderPrinted => t0 = SecondsOf(call_logs[1])
  /\ \A k \in 1..EventCount :
       /\ OffsetOf(k) >= 0
       /\ Take(EventLine(k), Len(OffsetField(OffsetOf(k)))) = OffsetField(OffsetOf(k))
       /\ EventLine(k)[Len(OffsetField(OffsetOf(k))) + 1] = " "
       /\ k = 1 => Take(EventLine(k), Len(LineFirstOffset)) = LineFirstOffset

\* the input held the later record first, and the second line printed has a
\* positive offset
C6_Witness ==
  /\ pc = "done" /\ rc = 0 /\ EventCount = 2
  /\ Len(logs) = 2
  /\ logs[1].timestamp > logs[2].timestamp
  /\ OffsetOf(2) > 0
  /\ Take(EventLine(1), Len(LineFirstOffset)) = LineFirstOffset

\* an argument is given, and no record of the input has it as its callId
ArgumentMatchesNone ==
  /\ InputLogs # << >>
  /\ Len(argv) > 0
  /\ \A n \in 1..Len(InputLogs) :
       ~("callId" \in DOMAIN InputLogs[n] /\ InputLogs[n].callId = argv[1])

\* nothing is printed but the line that names the argument
OnlyNoLogsFor ==
  /\ out \in {<< >>, <<LitNoLogsFor \o argv[1]>>}
  /\ pc = "done" => (out = <<LitNoLogsFor \o argv[1]>> /\ rc = 0)

(***************************************************************************)
(* C7 as it stands.  With at least one record in the input and an explicit *)
(* call identifier that is the callId of no record, the whole output is    *)
(* the one line 'No logs for callId=<id>' and the run ends with status 0.  *)
(* The empty string is such an identifier.                                 *)
(***************************************************************************)
C7_AnyArgument == ArgumentMatchesNone => OnlyNoLogsFor

(***************************************************************************)
(* C7.  With at least one record in the input and an explicit call         *)
(* identifier that is not the empty string and is the callId of no record, *)
(* the whole output is the one line 'No logs for callId=<id>' and the run  *)
(* ends with status 0.                                                     *)
(***************************************************************************)
C7_NonEmptyArgument == (ArgumentMatchesNone /\ argv[1] # EmptyStr) => OnlyNoLogsFor

\* the argument Z matched no record, one of which has no callId at all
C7_Witness ==
  /\ pc = "done" /\ rc = 0
  /\ argv = <<IdZ>>
  /\ \E n \in 1..Len(logs) : "callId" \notin DOMAIN logs[n]
  /\ out = <<LineNoLogsZ>>

\* the callId of the first record of the input as given
FirstCallId ==
  IF "callId" \in DOMAIN InputLogs[1] THEN InputLogs[1].callId ELSE << >>

(***************************************************************************)
(* C8.  With no call identifier argument and at least one record, the      *)
(* target is the callId of the first record of the input as given (the     *)
(* empty string when that record has none), and the line that announces it *)
(* is the first line, before the header or the 'No logs for' line, one of  *)
(* which follows it in every run that ends with status 0.                  *)
(***************************************************************************)
C8_DefaultIsFirstRecord ==
  (argv = << >> /\ InputLogs # << >> /\ pc \notin {"load", "select"}) =>
    /\ call_id = FirstCallId
    /\ Len(out) >= 1
    /\ out[1] = LitMostRecent \o FirstCallId
    /\ (pc = "done" /\ rc = 0) => Len(out) >= 2
    /\ Len(out) >= 2 =>
         \/ out[2] = LitNoLogsFor \o FirstCallId
         \/ Take(out[2], Len(LitCall \o FirstCallId \o LitEventsOpen))
              = LitCall \o FirstCallId \o LitEventsOpen

\* the first record is of call B and is older than the second, of call A
C8_Witness ==
  /\ pc = "done" /\ rc = 0
  /\ argv = << >>
  /\ Len(logs) = 2
  /\ "callId" \in DOMAIN logs[1] /\ logs[1].callId = IdB
  /\ "callId" \in DOMAIN logs[2] /\ logs[2].callId = IdA
  /\ "timestamp" \in DOMAIN logs[1] /\ "timestamp" \in DOMAIN logs[2]
  /\ logs[1].timestamp < logs[2].timestamp
  /\ call_id = IdB
  /\ out[1] = LineMostRecentB

(***************************************************************************)
(* C3.  Malformed root JSON is the only fatal path: a run ends with a      *)
(* failure when standard input is no JSON document, and with status 0 when *)
(* it is one, whatever the records and their payloads hold.                *)
(***************************************************************************)
C3_ValidInputSucceeds == pc = "done" => (rc = 0 <=> stdin.valid)

\* the run ended with an exception inside the loop
RaisedInLoop == pc = "done" /\ rc = 1 /\ HeaderPrinted

\* the line of record k up to the kind word
KindField(k, word) == OffsetField(OffsetOf(k)) \o LitTwoSpaces \o word

\* what every run keeps: a record is passed with a default for whatever is
\* absent in it, '?' or the empty text standing in its line, and the loop
\* ends the run at no record but one whose url list is present and empty
AbsentFieldsDefaulted ==
  /\ pc = "loop" => EventCount = i - 1
  /\ (pc = "done" /\ rc = 0 /\ HeaderPrinted) => EventCount = Len(call_logs)
  /\ RaisedInLoop =>
       /\ EventCount = i - 1
       /\ EmptyUrlList(call_logs[i])
  /\ \A k \in 1..EventCount :
       LET l == call_logs[k]
       IN  /\ "metadata" \notin DOMAIN l => EventLine(k) = KindField(k, LitEvent)
           /\ ("requestBody" \notin DOMAIN MetaOf(l) /\ "responseBody" \notin DOMAIN MetaOf(l))
                => EventLine(k) = KindField(k, LitEvent)
           /\ ( /\ LowestRule(l) = 1
                /\ "transcribeReason" \notin DOMAIN BodyOf(l) )
                => Take(EventLine(k), Len(KindField(k, LitSpeech)) + 4)
                     = KindField(k, LitSpeech) \o <<"?", " ", " ", "\"">>
           /\ ( /\ LowestRule(l) = 2
                /\ "from" \notin DOMAIN BodyOf(l)
                /\ "to" \notin DOMAIN BodyOf(l)
                /\ RespOf(l) = << >> )
                => EventLine(k) = KindField(k, LitCallFrom) \o <<"?">> \o LitCallTo \o <<"?">>
           /\ ( /\ LowestRule(l) = 3
                /\ "url" \notin DOMAIN HeadersOf(l)
                /\ RespOf(l) = << >> )
                => EventLine(k) = KindField(k, LitRedir) \o <<"?">>

\* something the loop reads is absent in the record
SomethingAbsent(l) ==
  \/ "metadata" \notin DOMAIN l
  \/ "requestBody" \notin DOMAIN MetaOf(l)
  \/ "responseBody" \notin DOMAIN MetaOf(l)
  \/ "requestHeaders" \notin DOMAIN MetaOf(l)
  \/ "url" \notin DOMAIN HeadersOf(l)
  \/ \E key \in {"transcript", "transcribeReason", "requestType", "from", "to"} :
       key \notin DOMAIN BodyOf(l)

(***************************************************************************)
(* C4.  For every record of the selected call, the absence of metadata,    *)
(* requestBody, responseBody, requestHeaders, url or of a single key is    *)
(* recovered by a default: the record still gets its one line, and the run *)
(* is not ended by a failure.                                              *)
(***************************************************************************)
C4_AbsentFieldsRecovered ==
  pc = "done" =>
    \A k \in 1..Len(call_logs) :
      SomethingAbsent(call_logs[k]) => (k <= EventCount /\ rc = 0)

\* a redirect record without requestHeaders and responseBody was printed
C4_Witness ==
  /\ pc = "done" /\ rc = 0 /\ EventCount = 1
  /\ RequestTypeIs(call_logs[1], LitRedirectType)
  /\ "transcript" \notin DOMAIN BodyOf(call_logs[1])
  /\ "requestHeaders" \notin DOMAIN MetaOf(call_logs[1])
  /\ "responseBody" \notin DOMAIN MetaOf(call_logs[1])
  /\ EventLine(1) = LineRedirDefault

\* the loop reaches the decoding of the record's responseBody, and it fails
DecodingFails(l) ==
  /\ RespOf(l) # << >>
  /\ ~(LowestRule(l) = 3 /\ EmptyUrlList(l))
  /\ ~DecodeResponse(RespOf(l)).ok

\* the line of a record whose decoding fails
FallbackLine(l, base) ==
  OffsetField(SecondsOf(l) - base) \o LitTwoSpaces
  \o KindPart(MetaOf(l), BodyOf(l), RespOf(l)).text \o LitTwoSpaces
  \o <<" ", "-", ">", " ">> \o SubSeq(RespOf(l), 1, Min(80, Len(RespOf(l))))

\* the bodies of the inputs whose decoding fails, each for its own reason:
\* no JSON, no JSON and longer than 80, a value that cannot be iterated, a
\* string that holds a control character, a later command whose value has
\* no get
FailingBodies ==
  {RespInvalid, RespLongInvalid, RespNumber, RespFormFeed, RespPartial, RespPartialRedirect}

\* what every run keeps: the pass of the loop over a record whose decoding
\* fails prints its line with the fallback, does not raise, and goes on to
\* the next record; 'not valid json' gives '-> not valid json'
FallbackOnDecodeFailure ==
  /\ [][ (pc = "loop" /\ DecodingFails(call_logs[i])) =>
           /\ out' = Append(out, FallbackLine(call_logs[i], t0))
           /\ rc' # 1
           /\ i < Len(call_logs) => (pc' = "loop" /\ i' = i + 1) ]_vars
  /\ [](\A k \in 1..EventCount :
          /\ RespOf(call_logs[k]) \in FailingBodies => DecodingFails(call_logs[k])
          /\ (RespOf(call_logs[k]) = RespInvalid /\ LowestRule(call_logs[k]) = 4 /\ OffsetOf(k) = 0)
               => EventLine(k) = LineInvalid)

(***************************************************************************)
(* C5.  When the responseBody of a record is non-empty and its decoding as *)
(* a command list fails, the suffix of the line is ' -> ' and the first 80 *)
(* characters of the raw responseBody, the run does not fail, and the      *)
(* records after it are still rendered.                                    *)
(***************************************************************************)
C5_FallbackAndRunGoesOn ==
  pc = "done" =>
    \A k \in 1..Len(call_logs) :
      DecodingFails(call_logs[k]) =>
        /\ k <= EventCount
        /\ EventLine(k) = FallbackLine(call_logs[k], t0)
        /\ rc = 0
        /\ EventCount = Len(call_logs)

\* a body of 85 characters that is no JSON was printed cut to 80, and the
\* record after it was printed too
C5_Witness ==
  /\ pc = "done" /\ rc = 0 /\ EventCount = 2
  /\ RespOf(call_logs[1]) = RespLongInvalid
  /\ Len(RespLongInvalid) = 85
  /\ EventLine(1) = LineLongPrefix \o Repeat("x", 72)
  /\ EventLine(2) = LineLater

\* the line of record k without a suffix
BaseLine(k) ==
  KindField(k, KindPart(MetaOf(call_logs[k]), BodyOf(call_logs[k]), RespOf(call_logs[k])).text)

\* the line of record k is its base line followed by a suffix
CarriesSuffix(k) ==
  /\ Len(EventLine(k)) >= Len(BaseLine(k)) + 6
  /\ Take(EventLine(k), Len(BaseLine(k)) + 6) = BaseLine(k) \o LitTwoSpaces \o <<" ", "-", ">", " ">>

(***************************************************************************)
(* C9.  An event line carries a response suffix if and only if the         *)
(* record's responseBody is non-empty, whatever its kind: SPEECH, CALL and *)
(* REDIR lines carry it whenever the responseBody is non-empty, every RESP *)
(* line carries one and no EVENT line does.                                *)
(***************************************************************************)
C9_SuffixIffResponseBody ==
  \A k \in 1..EventCount :
    /\ RespOf(call_logs[k]) # << >> => CarriesSuffix(k)
    /\ RespOf(call_logs[k]) = << >> => (EventLine(k) = BaseLine(k) /\ ~CarriesSuffix(k))
    /\ KindWordOf(EventLine(k)) = KindWords[4] => CarriesSuffix(k)
    /\ KindWordOf(EventLine(k)) = KindWords[5] => EventLine(k) = KindField(k, LitEvent)

\* a CALL line was printed with the suffix of its responseBody
C9_Witness ==
  /\ pc = "done" /\ rc = 0 /\ EventCount = 2
  /\ LowestRule(call_logs[2]) = 2
  /\ RespOf(call_logs[2]) = RespPlay
  /\ EventLine(2) = LineCallPlay

\* the bodies of the inputs whose first command is rendered and whose second
\* command raises
PartialBodies == {RespPartial, RespPartialRedirect}

\* the names the first command of body b gives when it is decoded alone
FirstCommandNames(b) ==
  LET cmd == Head(json_loads(b).val.v)
  IN  KeyNames(cmd, Iterate(cmd), << >>)

\* the commands of a decoded list, each decoded alone: [ok, names], ok when
\* every command is a dict whose keys all give a name
RECURSIVE EachAlone(_, _)
EachAlone(cmds, acc) ==
  IF cmds = << >> THEN [ok |-> TRUE, names |-> acc]
  ELSE IF Head(cmds).t # "dict" THEN [ok |-> FALSE, names |-> acc]
  ELSE LET r == KeyNames(Head(cmds), Iterate(Head(cmds)), << >>)
       IN  IF ~r.ok THEN [ok |-> FALSE, names |-> acc]
           ELSE EachAlone(Tail(cmds), acc \o r.names)

\* body b as a list of commands, each decoded alone
DecodedAlone(b) ==
  LET r == json_loads(b)
  IN  IF r.ok /\ r.val.t = "list" THEN EachAlone(r.val.v, << >>)
      ELSE [ok |-> FALSE, names |-> << >>]

\* the bodies named partial are: the first command gives a name, a later
\* one does not
C10_PartialBodiesArePartial ==
  \A b \in PartialBodies :
    /\ json_loads(b).ok
    /\ FirstCommandNames(b).ok /\ FirstCommandNames(b).names # << >>
    /\ ~DecodedAlone(b).ok

(***************************************************************************)
(* C10.  The suffix of a line is all or nothing: either the names of all   *)
(* the commands or the raw-text fallback.  When the decoding fails after   *)
(* the first command was rendered, no name is kept: the suffix is the      *)
(* fallback alone.                                                         *)
(***************************************************************************)
C10_SuffixAllOrNothing ==
  /\ C10_PartialBodiesArePartial
  /\ \A k \in 1..EventCount :
       LET resp == RespOf(call_logs[k])
           arrow == BaseLine(k) \o LitTwoSpaces \o <<" ", "-", ">", " ">>
           d == DecodedAlone(resp)
       IN  resp # << >> =>
             /\ resp \in PartialBodies =>
                  /\ EventLine(k) = arrow \o resp
                  /\ EventLine(k) # arrow \o Join(LitPlus, FirstCommandNames(resp).names)
             /\ d.ok => EventLine(k) = arrow \o Join(LitPlus, d.names)
             /\ ~d.ok => EventLine(k) = arrow \o Take(resp, 80)

\* a list whose first command is rendered and whose second raises was
\* printed as raw text
C10_Witness ==
  /\ pc = "done" /\ rc = 0 /\ EventCount = 1
  /\ LowestRule(call_logs[1]) = 4
  /\ RespOf(call_logs[1]) = RespPartial
  /\ FirstCommandNames(RespPartial).names = << <<"H","a","n","g","u","p">> >>
  /\ EventLine(1) = LinePartial

====
